---- MODULE Spec2Model ----
(***************************************************************************)
(* Model of VoltageScanningLogic (src/logic/laser_scan_logic.py): the      *)
(* voltage ramp generator and the scan session driven by queued signals.  *)
(*                                                                         *)
(* Voltages are integer volts.  Ramp samples are exact rationals <<n, d>>  *)
(* (value n/d, d > 0); of floating-point rounding only its effect on the  *)
(* number of linear steps is modelled.                                     *)
(* The Qt event queue of the logic thread is the FIFO `queue'.  A handler  *)
(* or a direct call that waits in device calls is a sequence of steps, one *)
(* per wait, and the calls of other threads run between them.              *)
(***************************************************************************)
EXTENDS Integers, Sequences, FiniteSets, TLC

\* ---------------------------------------------------------------- bounds
MaxVolt == 1          \* the device's a-range is 0..10 * MaxVolt volts
MaxRepeats == 1       \* number_of_repeats, which activation() sets
MaxQueue == 1         \* pending queued signals
MaxSmoothing == 1     \* _smoothing_steps is at most MaxSmoothing
MaxClock == 1         \* _clock_frequency is at most MaxClock (ticks per second)
MaxSpeed == 1         \* _goto_speed is at most MaxSpeed (volts per second)
\* bounds of the ramp generator's inputs
RampMaxVolt == 2      \* voltage1, voltage2 range over -RampMaxVolt..RampMaxVolt
RampMaxSmoothing == 2 \* _smoothing_steps ranges over 0..RampMaxSmoothing
RampMaxClock == 2     \* _clock_frequency ranges over 1..RampMaxClock
RampMaxSpeed == 2     \* speed ranges over 1..RampMaxSpeed

\* the voltages handed to goto_voltage and start_scanning: the two ends of
\* the scan range that activation() sets
Volts == {0, MaxVolt}
\* an optional argument: <<>> is None, <<v>> is the value v
OptVolts == {<<>>} \cup {<<v>> : v \in Volts}
\* the argument pairs handed to start_scanning: none, the range as it is
\* and the range turned round
StartArgs == {<< <<>>, <<>> >>, << <<0>>, <<MaxVolt>> >>,
              << <<MaxVolt>>, <<0>> >>}

VARIABLES
    state,              \* module state (getState()): "idle" or "locked"
    devState,           \* scanning device state: "idle" or "locked"
    stopRequested,
    _scan_counter,       \* self._scan_counter
    upwards_scan,
    scan_range,         \* <<min, max>>
    scan_matrix,        \* row index -> "zeros" or the counts of a sweep
    number_of_repeats,
    _current_v,          \* self._current_v, the goto target
    current_position,   \* a-channel of self.current_position (snapshot)
    scanner_position,   \* a-channel position held by the device
    _clock_frequency,    \* self._clock_frequency
    _goto_speed,         \* self._goto_speed
    _smoothing_steps,    \* self._smoothing_steps
    queue,              \* queued signals, FIFO
    pcLogic,            \* where the logic thread stands: "idle" between
                        \* slots; inside _change_voltage the device call it
                        \* waits in: "set_up_scanner_clock", "set_up_scanner",
                        \* "scan_line", "close_scanner", "close_scanner_clock"
    pcStart,            \* where the thread that called start_scanning
                        \* stands: "idle", or the set-up call it waits in
    pcKill,             \* where the thread that called kill_scanner stands:
                        \* "idle", or the close call it waits in
    ramp_scan,          \* the ramp _change_voltage generated and will play
    sessionActive,      \* history: a start_scanning succeeded and its session
                        \* has not closed the scanner itself
    trail,              \* history of an undisturbed session: "starting"
                        \* while a start_scanning from rest (idle, nothing
                        \* queued or running, stop flag clear) sets up,
                        \* "started" once it succeeded, "stopped" once
                        \* stop_scanning set the flag in it, "none" after
                        \* any other direct call or a device failure
    op                  \* history: the handler that ran last, what it saw,
                        \* the device calls it made and what it returned

vars == <<state, devState, stopRequested, _scan_counter, upwards_scan,
          scan_range, scan_matrix, number_of_repeats, _current_v,
          current_position, scanner_position, _clock_frequency, _goto_speed,
          _smoothing_steps, queue, pcLogic, pcStart, pcKill, ramp_scan,
          sessionActive, trail, op>>

config == <<number_of_repeats, _clock_frequency, _goto_speed, _smoothing_steps>>


\* ------------------------------------------------- framework primitives
\* Base.lock() / Base.unlock() / getState() of the module and of the device:
\* a two-valued state that lock() sets and unlock() clears.
lock(s) == "locked"
unlock(s) == "idle"

\* self.set_position('scanner'), called after a failed setup: the exception
\* it raises ("" when it returns).  It touches no state of this model.
set_position(tag) == ""

\* A device call made by a handler; for a scan_line call, with both lock
\* states at the moment of the call.
Io(call, kind, m, d) == [call |-> call, kind |-> kind, mod |-> m, dev |-> d]

\* self._scanning_device.scan_line(line_to_scan) as _scan_line calls it
\* (line 362), with module state st and device state ds.
scan_line_call(kind, st, ds) == <<Io("scan_line", kind, st, ds)>>

\* --------------------------------------------------------- ramp generator
\* sum(n * w for n in range(lo, hi))
RECURSIVE SumRange(_, _, _)
SumRange(lo, hi, w) ==
    IF lo >= hi THEN 0 ELSE lo * w + SumRange(lo + 1, hi, w)

\* True when n is a power of two.
RECURSIVE IsPow2(_)
IsPow2(n) == n = 1 \/ (n > 1 /\ n % 2 = 0 /\ IsPow2(n \div 2))

\* How a quotient that is exactly half-way between two integers comes out
\* of the floating-point arithmetic of lines 307-319: just below the half
\* ("down"), just above it ("up"), or exactly on it ("even").
Ties == {"down", "up"}

\* np.rint(n / d) for d > 0: nearest integer; an exact half goes to the even
\* one, a half missed by a rounding error to the side the error fell on.
rint(n, d, tie) ==
    LET q == n \div d
        r == n % d
    IN  IF 2 * r < d THEN q
        ELSE IF 2 * r > d THEN q + 1
        ELSE IF tie = "down" THEN q
        ELSE IF tie = "up" THEN q + 1
        ELSE IF q % 2 = 0 THEN q ELSE q + 1

\* np.linspace(start/den, stop/den, num) for num >= 0, endpoint included
linspace(start, stop, num, den) ==
    IF num = 1 THEN << <<start, den>> >>
    ELSE [i \in 1..num |->
            <<start * (num - 1) + (i - 1) * (stop - start), den * (num - 1)>>]

Reverse(s) == [i \in 1..Len(s) |-> s[Len(s) + 1 - i]]

\* _generate_ramp without the reversal of a downward ramp.
_generate_ramp_no_reverse(voltage1, voltage2, speed, tie) ==
    LET v_min == IF voltage1 <= voltage2 THEN voltage1 ELSE voltage2
        v_max == IF voltage1 <= voltage2 THEN voltage2 ELSE voltage1
        smoothing_range == _smoothing_steps + 1
        den == _clock_frequency * smoothing_range
        linear_v_step == speed * smoothing_range
        v_range_of_accel == SumRange(0, smoothing_range, speed)
        v_min_linear == v_min * den + v_range_of_accel
        v_max_linear == v_max * den - v_range_of_accel
        exact == IsPow2(_clock_frequency) /\ IsPow2(smoothing_range)
        num_of_linear_steps == rint(v_max_linear - v_min_linear, linear_v_step,
                                    IF exact THEN "even" ELSE tie)
        smooth_curve == [N \in 1..(smoothing_range - 1) |-> SumRange(1, N, speed)]
        accel_part == [i \in 1..Len(smooth_curve) |->
                          <<v_min * den + smooth_curve[i], den>>]
        decel_part == [i \in 1..Len(smooth_curve) |->
                          <<v_max * den - Reverse(smooth_curve)[i], den>>]
        linear_part == linspace(v_min_linear, v_max_linear,
                                num_of_linear_steps, den)
        ramp == accel_part \o linear_part \o decel_part
    IN  IF num_of_linear_steps < 0
        THEN [exc |-> "ValueError", ramp |-> <<>>]
        ELSE [exc |-> "",
              ramp |-> ramp]

\* _generate_ramp with the deceleration part added to v_max.
_generate_ramp_decel_above(voltage1, voltage2, speed, tie) ==
    LET v_min == IF voltage1 <= voltage2 THEN voltage1 ELSE voltage2
        v_max == IF voltage1 <= voltage2 THEN voltage2 ELSE voltage1
        smoothing_range == _smoothing_steps + 1
        den == _clock_frequency * smoothing_range
        linear_v_step == speed * smoothing_range
        v_range_of_accel == SumRange(0, smoothing_range, speed)
        v_min_linear == v_min * den + v_range_of_accel
        v_max_linear == v_max * den - v_range_of_accel
        exact == IsPow2(_clock_frequency) /\ IsPow2(smoothing_range)
        num_of_linear_steps == rint(v_max_linear - v_min_linear, linear_v_step,
                                    IF exact THEN "even" ELSE tie)
        smooth_curve == [N \in 1..(smoothing_range - 1) |-> SumRange(1, N, speed)]
        accel_part == [i \in 1..Len(smooth_curve) |->
                          <<v_min * den + smooth_curve[i], den>>]
        decel_part == [i \in 1..Len(smooth_curve) |->
                          <<v_max * den + Reverse(smooth_curve)[i], den>>]
        linear_part == linspace(v_min_linear, v_max_linear,
                                num_of_linear_steps, den)
        ramp == accel_part \o linear_part \o decel_part
    IN  IF num_of_linear_steps < 0
        THEN [exc |-> "ValueError", ramp |-> <<>>]
        ELSE [exc |-> "",
              ramp |-> IF voltage2 < voltage1 THEN Reverse(ramp) ELSE ramp]

\* The a-channel row of the scan line _generate_ramp returns, or the
\* exception np.linspace raises for a negative sample count.  All voltages
\* are carried over the common denominator den = clock * smoothing_range:
\* n * linear_v_step / smoothing_range is n * speed over den.
\* The quotients speed / clock and n * step / smoothing_range are exact in
\* binary floating point when the clock frequency and smoothing_range are
\* powers of two; otherwise `tie' says where a half-way step count falls.
_generate_ramp(voltage1, voltage2, speed, tie) ==
    LET v_min == IF voltage1 <= voltage2 THEN voltage1 ELSE voltage2
        v_max == IF voltage1 <= voltage2 THEN voltage2 ELSE voltage1
        smoothing_range == _smoothing_steps + 1
        den == _clock_frequency * smoothing_range
        linear_v_step == speed * smoothing_range
        v_range_of_accel == SumRange(0, smoothing_range, speed)
        v_min_linear == v_min * den + v_range_of_accel
        v_max_linear == v_max * den - v_range_of_accel
        exact == IsPow2(_clock_frequency) /\ IsPow2(smoothing_range)
        num_of_linear_steps == rint(v_max_linear - v_min_linear, linear_v_step,
                                    IF exact THEN "even" ELSE tie)
        smooth_curve == [N \in 1..(smoothing_range - 1) |-> SumRange(1, N, speed)]
        accel_part == [i \in 1..Len(smooth_curve) |->
                          <<v_min * den + smooth_curve[i], den>>]
        decel_part == [i \in 1..Len(smooth_curve) |->
                          <<v_max * den - Reverse(smooth_curve)[i], den>>]
        linear_part == linspace(v_min_linear, v_max_linear,
                                num_of_linear_steps, den)
        ramp == accel_part \o linear_part \o decel_part
    IN  IF num_of_linear_steps < 0
        THEN [exc |-> "ValueError", ramp |-> <<>>]
        ELSE [exc |-> "",
              ramp |-> IF voltage2 < voltage1 THEN Reverse(ramp) ELSE ramp]

\* Where the device's a-channel stands after it has played a line.
EndPosition(line, pos) ==
    IF line = <<>> THEN pos ELSE line[Len(line)][1] \div line[Len(line)][2]

\* ------------------------------------------------------------- helpers
Op(name, branch, ret, exc, io, emitted) ==
    [name |-> name, branch |-> branch, ret |-> ret, exc |-> exc,
     io |-> io, emitted |-> emitted]

ZeroMatrix(rows) == [r \in 0..(rows - 1) |-> <<>>]

\* ------------------------------------------------- calls inside handlers
\* goto_voltage without its busy check: the signal is always emitted.
goto_voltage_call_unchecked(volts, st, ds) ==
    [_current_v |-> IF volts # <<>> THEN volts[1] ELSE _current_v,
     ret |-> 0,
     emitted |-> <<"change_voltage">>]

\* goto_voltage(volts) entered with module state st and device state ds.
goto_voltage_call(volts, st, ds) ==
    [_current_v |-> IF volts # <<>> THEN volts[1] ELSE _current_v,
     ret |-> IF st = "locked" \/ ds = "locked" THEN 0 - 1 ELSE 0,
     emitted |-> IF st = "locked" \/ ds = "locked"
                 THEN <<>> ELSE <<"change_voltage">>]

\* stop_scanning without its check of the module state.
stop_scanning_call_unchecked(st, flag) == TRUE

\* stop_scanning() entered with module state st: the new stop flag.
stop_scanning_call(st, flag) == IF st = "locked" THEN TRUE ELSE flag

\* The values set_up_scanner_clock and set_up_scanner return.
SetupResults == {0, 0 - 1}

\* _initialise_scanner whose second failure branch forgets self.unlock().
_initialise_scanner_keeps_lock(call, res, st, ds) ==
    LET io == <<Io(call, "", "", "")>>
    IN  IF res < 0
        THEN [next |-> "", ret |-> 0 - 1, exc |-> set_position("scanner"),
              state |-> IF call = "set_up_scanner" THEN st ELSE unlock(st),
              devState |-> unlock(ds), io |-> io]
        ELSE [next |-> IF call = "set_up_scanner_clock"
                       THEN "set_up_scanner" ELSE "",
              ret |-> 0, exc |-> "", state |-> st, devState |-> ds,
              io |-> io]

\* _initialise_scanner() from the return of its device call `call'
\* (set_up_scanner_clock, line 197, or set_up_scanner, line 205) with the
\* value res, up to its next device call (`next') or its return; st and ds
\* are the module state and the device state at that moment.  The two
\* lock() calls (lines 194-195) come before the first device call.
_initialise_scanner(call, res, st, ds) ==
    LET io == <<Io(call, "", "", "")>>
    IN  IF res < 0
        THEN [next |-> "", ret |-> 0 - 1, exc |-> set_position("scanner"),
              state |-> unlock(st), devState |-> unlock(ds), io |-> io]
        ELSE [next |-> IF call = "set_up_scanner_clock"
                       THEN "set_up_scanner" ELSE "",
              ret |-> 0, exc |-> "", state |-> st, devState |-> ds,
              io |-> io]

\* _scan_line(line_to_scan) with one argument, from the moment the device's
\* scan_line returns or raises (dev is "ok" or "raise"), with the module
\* state st and the stop flag `flag' of that moment.  On failure:
\* stop_scanning(), emit signal_scan_next_line, re-raise.
_scan_line(line, dev, st, flag) ==
    IF dev = "ok"
    THEN [exc |-> "", counts |-> line, emitted |-> <<>>,
          position |-> EndPosition(line, scanner_position),
          stopRequested |-> flag]
    ELSE [exc |-> "HardwareError", counts |-> <<>>,
          emitted |-> <<"next_line">>, position |-> scanner_position,
          stopRequested |-> stop_scanning_call(st, flag)]

\* _scan_line is declared as _scan_line(self, line_to_scan=None): the number
\* of positional arguments it accepts besides self.
ScanLineMaxArgs == 1

\* self._scan_line(a, b) as _do_next_line calls it, with two positional
\* arguments: Python raises TypeError at the call, before the body (and its
\* try block) is entered.
_scan_line_2(a, b, kind, dev, st, ds, flag) ==
    LET scan == _scan_line(<< <<a, 1>>, <<b, 1>> >>, dev, st, flag)
    IN  IF 2 > ScanLineMaxArgs
        THEN [exc |-> "TypeError", counts |-> <<>>, io |-> <<>>,
              emitted |-> <<>>, position |-> scanner_position,
              stopRequested |-> flag]
        ELSE [exc |-> scan.exc, counts |-> scan.counts,
              io |-> scan_line_call(kind, st, ds), emitted |-> scan.emitted,
              position |-> scan.position,
              stopRequested |-> scan.stopRequested]

\* kill_scanner() from the return of its device call `call' (close_scanner,
\* line 378, or close_scanner_clock, line 379) up to its next device call
\* (`next') or its return, with the device state ds of that moment; cls is
\* what happens: "ok", "raise" (the call raises, which is re-raised) or
\* "raise_unlock" (the device's unlock() after the second call raises,
\* which is logged and swallowed).
kill_scanner_call(call, cls, ds) ==
    LET io == <<Io(call, "", "", "")>>
    IN  IF cls = "raise"
        THEN [next |-> "", ret |-> 0, exc |-> "CloseError", devState |-> ds,
              io |-> io]
        ELSE IF call = "close_scanner"
        THEN [next |-> "close_scanner_clock", ret |-> 0, exc |-> "",
              devState |-> ds, io |-> io]
        ELSE IF cls = "raise_unlock"
        THEN [next |-> "", ret |-> 0, exc |-> "", devState |-> ds, io |-> io]
        ELSE [next |-> "", ret |-> 0, exc |-> "", devState |-> unlock(ds),
              io |-> io]

\* _close_scanner() from the return of the device call `call' of its
\* kill_scanner() up to the next device call or its return, with module
\* state st, device state ds and stop flag `flag': after kill_scanner the
\* flag is cleared and the module unlocked.  When kill_scanner raises, the
\* flag and the module lock stay.
_close_scanner(call, cls, st, ds, flag) ==
    LET kill == kill_scanner_call(call, cls, ds)
    IN  IF kill.exc # "" \/ kill.next # ""
        THEN [next |-> kill.next, exc |-> kill.exc, state |-> st,
              devState |-> kill.devState, stopRequested |-> flag,
              io |-> kill.io]
        ELSE [next |-> "", exc |-> "", state |-> unlock(st),
              devState |-> kill.devState, stopRequested |-> FALSE,
              io |-> kill.io]

ScanResults == {"ok", "raise"}
\* What a close call does; "raise_unlock" belongs to close_scanner_clock,
\* the call after which the device is unlocked.
CloseResults == {"ok", "raise", "raise_unlock"}
CloseResultsOf(call) ==
    IF call = "close_scanner" THEN {"ok", "raise"} ELSE CloseResults

\* _close_scanner() run from its call to its return with no call of another
\* thread in between; cls1 and cls2 are what close_scanner and
\* close_scanner_clock do.
_close_scanner_run(cls1, cls2, st, ds, flag) ==
    LET first == _close_scanner("close_scanner", cls1, st, ds, flag)
        second == _close_scanner("close_scanner_clock", cls2, st, ds, flag)
    IN  IF first.next = "" THEN first
        ELSE [second EXCEPT !.io = first.io \o second.io]

\* ------------------------------------------------------------------ Init
\* The device's a-channel range, get_position_range()[3]; the device rests
\* at its lower end.
a_range == <<0, 10 * MaxVolt>>

\* After activation(): the module is idle, nothing is queued or running, the
\* matrix is zeroed, the scan range is the device's a-range divided by ten
\* and the goto target is the centre of the a-range.  The repeat
\* count, the clock frequency, the goto speed and the smoothing-step count
\* have the one value activation() gives them.
Init ==
    /\ state = "idle"
    /\ devState = "idle"
    /\ stopRequested = FALSE
    /\ _scan_counter = 0
    /\ upwards_scan = TRUE
    /\ scan_range = <<a_range[1] \div 10, a_range[2] \div 10>>
    /\ number_of_repeats = MaxRepeats
    /\ scan_matrix = ZeroMatrix(number_of_repeats)
    /\ _current_v = (a_range[1] + a_range[2]) \div 2
    /\ scanner_position = a_range[1]
    /\ current_position = scanner_position
    /\ _clock_frequency = MaxClock
    /\ _goto_speed = MaxSpeed
    /\ _smoothing_steps = MaxSmoothing
    /\ queue = <<>>
    /\ pcLogic = "idle"
    /\ pcStart = "idle"
    /\ pcKill = "idle"
    /\ ramp_scan = <<>>
    /\ sessionActive = FALSE
    /\ trail = "none"
    /\ op = Op("activation", "", 0, "", <<>>, <<>>)

\* --------------------------------------------------------------- actions
\* goto_voltage(volts): a direct call.  A rejected call emits nothing and
\* is taken whatever is queued.
goto_voltage(volts) ==
    LET g == goto_voltage_call(volts, state, devState)
    IN  /\ g.emitted # <<>> => Len(queue) < MaxQueue
        /\ _current_v' = g._current_v
        /\ queue' = queue \o g.emitted
        /\ op' = Op("goto_voltage", "", g.ret, "", <<>>, g.emitted)
        /\ trail' = "none"
        /\ UNCHANGED <<state, devState, stopRequested, _scan_counter,
                       upwards_scan, scan_range, scan_matrix, current_position,
                       scanner_position, pcLogic, pcStart, pcKill,
                       ramp_scan, sessionActive, config>>

\* _change_voltage(): the slot of signal_change_voltage, up to its first
\* wait.  It generates the ramp and _initialise_scanner locks the module and
\* the device (lines 194-195) without looking at their state.
_change_voltage(tie) ==
    /\ pcLogic = "idle"
    /\ queue # <<>>
    /\ Head(queue) = "change_voltage"
    /\ queue' = Tail(queue)
    /\ LET ramp == _generate_ramp(scanner_position, _current_v, _goto_speed,
                                  tie)
       IN  IF ramp.exc # ""
           THEN /\ op' = Op("_change_voltage", "ramp", 0, ramp.exc,
                            <<>>, <<>>)
                /\ UNCHANGED <<state, devState, pcLogic, ramp_scan>>
           ELSE /\ state' = lock(state)
                /\ devState' = lock(devState)
                /\ pcLogic' = "set_up_scanner_clock"
                /\ ramp_scan' = ramp.ramp
                /\ op' = Op("_change_voltage", "lock", 0, "", <<>>, <<>>)
    /\ trail' = "none"
    /\ UNCHANGED <<stopRequested, _scan_counter, upwards_scan, scan_range,
                   scan_matrix, _current_v, current_position,
                   scanner_position, pcStart, pcKill, sessionActive,
                   config>>

\* _change_voltage(), from the return of a set-up call of its
\* _initialise_scanner to the next wait: in set_up_scanner after the clock
\* was set up, else in the device's scan_line.  The return value of
\* _initialise_scanner is not looked at: after a failed set-up, with both
\* locks released, the slot goes on to play the ramp.
_change_voltage_setup(res) ==
    /\ pcLogic \in {"set_up_scanner_clock", "set_up_scanner"}
    /\ LET init == _initialise_scanner(pcLogic, res, state, devState)
           call == IF init.next # "" \/ init.exc # "" THEN <<>>
                   ELSE scan_line_call("goto", init.state, init.devState)
       IN  /\ state' = init.state
           /\ devState' = init.devState
           /\ pcLogic' = IF init.next # "" THEN init.next
                         ELSE IF init.exc # "" THEN "idle" ELSE "scan_line"
           /\ ramp_scan' = IF init.exc # "" THEN <<>> ELSE ramp_scan
           /\ op' = Op("_change_voltage", "setup", 0, init.exc,
                       init.io \o call, <<>>)
    /\ trail' = "none"
    /\ UNCHANGED <<stopRequested, _scan_counter, upwards_scan, scan_range,
                   scan_matrix, _current_v, current_position,
                   scanner_position, queue, pcStart, pcKill, sessionActive,
                   config>>

\* _change_voltage(), the return of the device's scan_line: a failure is
\* answered by stop_scanning(), a queued next-line step and the re-raised
\* exception; after a played ramp the slot enters _close_scanner() and
\* waits in the device's close_scanner().
_change_voltage_scan(dev) ==
    /\ pcLogic = "scan_line"
    /\ dev = "raise" => Len(queue) < MaxQueue
    /\ LET scan == _scan_line(ramp_scan, dev, state, stopRequested)
       IN  /\ queue' = queue \o scan.emitted
           /\ stopRequested' = scan.stopRequested
           /\ scanner_position' = scan.position
           /\ pcLogic' = IF scan.exc # "" THEN "idle" ELSE "close_scanner"
           /\ op' = Op("_change_voltage", "scan", 0, scan.exc, <<>>,
                       scan.emitted)
    /\ ramp_scan' = <<>>
    /\ trail' = "none"
    /\ UNCHANGED <<state, devState, _scan_counter, upwards_scan, scan_range,
                   scan_matrix, _current_v, current_position, pcStart,
                   pcKill, sessionActive, config>>

\* _change_voltage(), from the return of a close call of its
\* _close_scanner() to the next wait, in close_scanner_clock, or to the
\* end of the slot.
_change_voltage_close(cls) ==
    /\ pcLogic \in {"close_scanner", "close_scanner_clock"}
    /\ cls \in CloseResultsOf(pcLogic)
    /\ LET close == _close_scanner(pcLogic, cls, state, devState,
                                   stopRequested)
       IN  /\ state' = close.state
           /\ devState' = close.devState
           /\ stopRequested' = close.stopRequested
           /\ pcLogic' = IF close.next # "" THEN close.next ELSE "idle"
           /\ op' = Op("_change_voltage", "close", 0, close.exc, close.io,
                       <<>>)
    /\ trail' = "none"
    /\ UNCHANGED <<_scan_counter, upwards_scan, scan_range, scan_matrix,
                   _current_v, current_position, scanner_position, queue,
                   pcStart, pcKill, ramp_scan, sessionActive, config>>

\* start_scanning(v_min, v_max): a direct call, up to its first wait.  It
\* overwrites the session data, reads the device position and
\* _initialise_scanner locks the module and the device (lines 194-195).
start_scanning(v_min, v_max) ==
    /\ pcStart = "idle"
    /\ scan_range' = <<IF v_min # <<>> THEN v_min[1] ELSE scan_range[1],
                       IF v_max # <<>> THEN v_max[1] ELSE scan_range[2]>>
    /\ _scan_counter' = 0
    /\ upwards_scan' = TRUE
    /\ scan_matrix' = ZeroMatrix(number_of_repeats)
    /\ current_position' = scanner_position
    /\ state' = lock(state)
    /\ devState' = lock(devState)
    /\ pcStart' = "set_up_scanner_clock"
    /\ trail' = IF state = "idle" /\ devState = "idle" /\ queue = <<>>
                    /\ pcLogic = "idle" /\ pcKill = "idle"
                    /\ ~stopRequested
                 THEN "starting" ELSE "none"
    /\ op' = Op("start_scanning", "lock", 0, "", <<>>, <<>>)
    /\ UNCHANGED <<stopRequested, _current_v, scanner_position, queue,
                   pcLogic, pcKill, ramp_scan, sessionActive, config>>

\* start_scanning(), from the return of a set-up call of its
\* _initialise_scanner to the next wait, in set_up_scanner, or to the
\* return: -1 after a failed set-up, else the first step is queued.
start_scanning_setup(res) ==
    /\ pcStart \in {"set_up_scanner_clock", "set_up_scanner"}
    /\ (pcStart = "set_up_scanner" /\ res = 0) => Len(queue) < MaxQueue
    /\ LET init == _initialise_scanner(pcStart, res, state, devState)
           done == init.next = ""
           emitted == IF done /\ init.ret = 0 THEN <<"next_line">> ELSE <<>>
       IN  /\ state' = init.state
           /\ devState' = init.devState
           /\ queue' = queue \o emitted
           /\ pcStart' = IF done THEN "idle" ELSE init.next
           /\ sessionActive' = IF done /\ init.ret = 0 THEN TRUE
                               ELSE sessionActive
           /\ trail' = IF ~done THEN trail
                        ELSE IF init.ret = 0 /\ trail = "starting"
                        THEN "started" ELSE "none"
           /\ op' = Op("start_scanning",
                       IF ~done THEN "clock"
                       ELSE IF init.ret < 0 THEN "setup" ELSE "ok",
                       init.ret, init.exc, init.io, emitted)
    /\ UNCHANGED <<stopRequested, _scan_counter, upwards_scan, scan_range,
                   scan_matrix, _current_v, current_position,
                   scanner_position, pcLogic, pcKill, ramp_scan, config>>

\* stop_scanning(): a direct call.  It takes threadlock, which
\* _close_scanner holds over its close calls (line 255): a call made then
\* runs once the lock is released.
stop_scanning ==
    /\ pcLogic \notin {"close_scanner", "close_scanner_clock"}
    /\ stopRequested' = stop_scanning_call(state, stopRequested)
    /\ op' = Op("stop_scanning", "", 0, "", <<>>, <<>>)
    /\ trail' = IF trail = "starting" THEN "none"
                 ELSE IF trail # "none" /\ state = "locked" THEN "stopped"
                 ELSE trail
    /\ UNCHANGED <<state, devState, _scan_counter, upwards_scan, scan_range,
                   scan_matrix, _current_v, current_position,
                   scanner_position, queue, pcLogic, pcStart, pcKill,
                   ramp_scan, sessionActive, config>>

\* kill_scanner(): a direct call, up to its first wait, in close_scanner.
kill_scanner ==
    /\ pcKill = "idle"
    /\ pcKill' = "close_scanner"
    /\ op' = Op("kill_scanner", "call", 0, "", <<>>, <<>>)
    /\ trail' = "none"
    /\ UNCHANGED <<state, devState, stopRequested, _scan_counter,
                   upwards_scan, scan_range, scan_matrix, _current_v,
                   current_position, scanner_position, queue, pcLogic,
                   pcStart, ramp_scan, sessionActive, config>>

\* kill_scanner(), from the return of a close call to the next wait, in
\* close_scanner_clock, or to the return.
kill_scanner_close(cls) ==
    /\ pcKill \in {"close_scanner", "close_scanner_clock"}
    /\ cls \in CloseResultsOf(pcKill)
    /\ LET kill == kill_scanner_call(pcKill, cls, devState)
       IN  /\ devState' = kill.devState
           /\ pcKill' = IF kill.next # "" THEN kill.next ELSE "idle"
           /\ op' = Op("kill_scanner", "close", kill.ret, kill.exc, kill.io,
                       <<>>)
    /\ trail' = "none"
    /\ UNCHANGED <<state, stopRequested, _scan_counter, upwards_scan,
                   scan_range, scan_matrix, _current_v, current_position,
                   scanner_position, queue, pcLogic, pcStart, ramp_scan,
                   sessionActive, config>>

\* set_clock_frequency(clock_frequency): a direct call.  The frequency is
\* stored also when the module is locked and -1 is returned.
set_clock_frequency(clock_frequency) ==
    /\ _clock_frequency' = clock_frequency
    /\ op' = Op("set_clock_frequency", "",
                IF state = "locked" THEN 0 - 1 ELSE 0, "", <<>>, <<>>)
    /\ UNCHANGED <<state, devState, stopRequested, _scan_counter,
                   upwards_scan, scan_range, scan_matrix, number_of_repeats,
                   _current_v, current_position, scanner_position,
                   _goto_speed, _smoothing_steps, queue, pcLogic, pcStart,
                   pcKill, ramp_scan, sessionActive, trail>>

\* _do_next_line(): the slot of signal_scan_next_line.
_do_next_line(dev, cls1, cls2) ==
    /\ pcLogic = "idle"
    /\ queue # <<>>
    /\ Head(queue) = "next_line"
    /\ LET rest == Tail(queue)
           finishing == stopRequested \/ _scan_counter = number_of_repeats
           park == _scan_line_2(scan_range[1], current_position, "park", dev,
                                state, devState, stopRequested)
           close == _close_scanner_run(cls1, cls2, state, devState,
                                       park.stopRequested)
           goto == IF _scan_counter = 0
                   THEN goto_voltage_call(<<scan_range[1]>>, state, devState)
                   ELSE [_current_v |-> _current_v, ret |-> 0, emitted |-> <<>>]
           sweep == IF upwards_scan
                    THEN _scan_line_2(scan_range[1], scan_range[2], "sweep",
                                      dev, state, devState, stopRequested)
                    ELSE _scan_line_2(scan_range[2], scan_range[1], "sweep",
                                      dev, state, devState, stopRequested)
       IN  IF finishing /\ park.exc # ""
           THEN /\ queue' = rest \o park.emitted
                /\ stopRequested' = park.stopRequested
                /\ scanner_position' = park.position
                /\ op' = Op("_do_next_line", "finish", 0, park.exc,
                            park.io, park.emitted)
                /\ UNCHANGED <<state, devState, _scan_counter, upwards_scan,
                               scan_matrix, _current_v, sessionActive>>
           ELSE IF finishing
           THEN /\ queue' = rest
                /\ state' = close.state
                /\ devState' = close.devState
                /\ stopRequested' = close.stopRequested
                /\ scanner_position' = park.position
                /\ sessionActive' = IF close.exc = "" THEN FALSE
                                    ELSE sessionActive
                /\ op' = Op("_do_next_line", "finish", 0, close.exc,
                            park.io \o close.io, <<>>)
                /\ UNCHANGED <<_scan_counter, upwards_scan, scan_matrix,
                               _current_v>>
           ELSE IF sweep.exc # ""
           THEN /\ queue' = rest \o goto.emitted \o sweep.emitted
                /\ _current_v' = goto._current_v
                /\ stopRequested' = sweep.stopRequested
                /\ scanner_position' = sweep.position
                /\ op' = Op("_do_next_line", "measure", 0, sweep.exc,
                            sweep.io, goto.emitted \o sweep.emitted)
                /\ UNCHANGED <<state, devState, _scan_counter, upwards_scan,
                               scan_matrix, sessionActive>>
           ELSE /\ queue' = rest \o goto.emitted \o <<"next_line">>
                /\ _current_v' = goto._current_v
                /\ upwards_scan' = ~upwards_scan
                /\ scan_matrix' = [scan_matrix EXCEPT
                                      ![_scan_counter] = sweep.counts]
                /\ _scan_counter' = _scan_counter + 1
                /\ scanner_position' = sweep.position
                /\ op' = Op("_do_next_line", "measure", 0, "",
                            sweep.io, goto.emitted \o <<"next_line">>)
                /\ UNCHANGED <<state, devState, stopRequested, sessionActive>>
    /\ trail' = IF op'.exc \in {"HardwareError", "CloseError"}
                 THEN "none" ELSE trail
    /\ UNCHANGED <<scan_range, current_position, pcLogic, pcStart, pcKill,
                   ramp_scan, config>>

Next ==
    \/ \E volts \in OptVolts : goto_voltage(volts)
    \/ \E tie \in Ties : _change_voltage(tie)
    \/ \E res \in SetupResults : _change_voltage_setup(res)
    \/ \E dev \in ScanResults : _change_voltage_scan(dev)
    \/ \E cls \in CloseResults : _change_voltage_close(cls)
    \/ \E args \in StartArgs : start_scanning(args[1], args[2])
    \/ \E res \in SetupResults : start_scanning_setup(res)
    \/ stop_scanning
    \/ kill_scanner
    \/ \E cls \in CloseResults : kill_scanner_close(cls)
    \/ \E f \in 1..MaxClock : set_clock_frequency(f)
    \/ \E dev \in ScanResults, cls1 \in CloseResultsOf("close_scanner"),
          cls2 \in CloseResults : _do_next_line(dev, cls1, cls2)

Spec == Init /\ [][Next]_vars

\* ---------------------------------------------------------------- claims
Idle == state = "idle" /\ devState = "idle"

RowsWritten == {r \in DOMAIN scan_matrix : scan_matrix[r] # <<>>}

\* The counts a sweep for repeat r leaves in its row: upward when r is even.
SweepRow(r) ==
    IF r % 2 = 0 THEN << <<scan_range[1], 1>>, <<scan_range[2], 1>> >>
    ELSE << <<scan_range[2], 1>>, <<scan_range[1], 1>> >>

IoCalls(calls) == {i \in DOMAIN op.io : op.io[i].call \in calls}

\* C1: a session started from rest that meets no stop request, no goto, no
\* second start and no device failure, and that has nothing left to run, is
\* back in Idle with both locks released and rows 0..N-1 (and no other row)
\* written.
C1_CompletedSession ==
    (trail = "started" /\ queue = <<>>) =>
        /\ Idle
        /\ RowsWritten = 0..(number_of_repeats - 1)

\* C2: a session in which stop_scanning set the stop flag, and that has
\* nothing left to run, is back in Idle with both locks released.
C2_StoppedSessionEnds ==
    (trail = "stopped" /\ queue = <<>>) => Idle

\* C3: when the sweep call of a measuring step fails, the row is not written
\* and the counter is not advanced, and once nothing is left to run the
\* session is back in Idle with both locks released.
C3_FailedSweepEnds ==
    (/\ sessionActive
     /\ op.name = "_do_next_line"
     /\ op.branch = "measure"
     /\ op.exc # "") =>
        /\ _scan_counter \notin RowsWritten
        /\ ((queue = <<>> /\ pcLogic = "idle" /\ pcStart = "idle"
                /\ pcKill = "idle") => Idle)

\* C4: every scan_line the device executes finds the module lock and the
\* device lock held.
C4_ScanUnderBothLocks ==
    \A i \in IoCalls({"scan_line"}) :
        op.io[i].mod = "locked" /\ op.io[i].dev = "locked"

\* C5: while a session is active, a queued _change_voltage executes no ramp
\* on the device, does not close the scanner and releases neither lock.
C5_GotoExcludedFromSession ==
    [][(sessionActive /\ op'.name = "_change_voltage") =>
          /\ \A i \in DOMAIN op'.io :
                op'.io[i].call \notin
                    {"scan_line", "close_scanner", "close_scanner_clock"}
          /\ state' = state
          /\ devState' = devState]_vars

\* C6: a goto_voltage that finds the module or the device locked returns -1,
\* emits no signal and makes no device call.  (goto_voltage changes neither
\* lock, so the locks it found are the locks of the state it leaves.)
C6_BusyGotoRejected ==
    (op.name = "goto_voltage" /\ (state = "locked" \/ devState = "locked")) =>
        /\ op.ret = 0 - 1
        /\ op.emitted = <<>>
        /\ op.io = <<>>

C6_Witness ==
    /\ op.name = "goto_voltage"
    /\ state = "locked"
    /\ op.ret = 0 - 1

\* C7: when the device failure is re-raised out of _scan_line the cleanup has
\* completed: the handler that raises has closed the device and both the
\* module lock and the device lock are released.
C7_CleanupBeforeRaise ==
    op.exc = "HardwareError" =>
        /\ Idle
        /\ IoCalls({"close_scanner"}) # {}

C9_SweepOrder ==
    (/\ trail # "none"
     /\ op.name = "_do_next_line"
     /\ op.branch = "measure") =>
        /\ _scan_counter >= 1
        /\ RowsWritten = 0..(_scan_counter - 1)
        /\ scan_matrix[_scan_counter - 1] = SweepRow(_scan_counter - 1)
        /\ upwards_scan = (_scan_counter % 2 = 0)
        /\ Cardinality(IoCalls({"scan_line"})) = 1

\* C10: a start_scanning that finds the module locked leaves the scan range,
\* the repeat counter, the direction and the result matrix as they were
\* and returns at once: it goes on to no device call and no next-line
\* signal.
C10_SecondStartIgnored ==
    [][(state = "locked"
           /\ \E v_min \in OptVolts, v_max \in OptVolts :
                 start_scanning(v_min, v_max)) =>
          /\ scan_range' = scan_range
          /\ _scan_counter' = _scan_counter
          /\ upwards_scan' = upwards_scan
          /\ scan_matrix' = scan_matrix
          /\ pcStart' = "idle"]_vars

\* ------------------------------------------- the ramp generator on its own
\* _generate_ramp applied to every bounded input: the smoothing-step count is
\* configured at the start, the clock frequency is set by
\* set_clock_frequency, the voltages and the speed are arguments.
RampVolts == (0 - RampMaxVolt)..RampMaxVolt

\* The outcome of one _generate_ramp(voltage1, voltage2, speed) call.
RampOp(voltage1, voltage2, speed, tie) ==
    [name |-> "_generate_ramp", voltage1 |-> voltage1, voltage2 |-> voltage2,
     speed |-> speed, tie |-> tie,
     exc |-> _generate_ramp(voltage1, voltage2, speed, tie).exc,
     ramp |-> _generate_ramp(voltage1, voltage2, speed, tie).ramp]

RampInit ==
    /\ state = "idle"
    /\ devState = "idle"
    /\ stopRequested = FALSE
    /\ _scan_counter = 0
    /\ upwards_scan = TRUE
    /\ scan_range = <<a_range[1] \div 10, a_range[2] \div 10>>
    /\ number_of_repeats = 0
    /\ scan_matrix = ZeroMatrix(number_of_repeats)
    /\ _current_v = (a_range[1] + a_range[2]) \div 2
    /\ scanner_position = a_range[1]
    /\ current_position = scanner_position
    /\ _clock_frequency \in 1..RampMaxClock
    /\ _goto_speed = 1
    /\ _smoothing_steps \in 0..RampMaxSmoothing
    /\ queue = <<>>
    /\ pcLogic = "idle"
    /\ pcStart = "idle"
    /\ pcKill = "idle"
    /\ ramp_scan = <<>>
    /\ sessionActive = FALSE
    /\ trail = "none"
    /\ op = Op("activation", "", 0, "", <<>>, <<>>)

\* One call of _generate_ramp; it changes no field of the module.
generate_ramp(voltage1, voltage2, speed, tie) ==
    /\ op' = RampOp(voltage1, voltage2, speed, tie)
    /\ UNCHANGED <<state, devState, stopRequested, _scan_counter,
                   upwards_scan, scan_range, scan_matrix, _current_v,
                   current_position, scanner_position, queue, pcLogic,
                   pcStart, pcKill, ramp_scan, sessionActive, trail,
                   config>>

RampNext ==
    \/ \E f \in 1..RampMaxClock : set_clock_frequency(f)
    \/ \E voltage1 \in RampVolts, voltage2 \in RampVolts,
          speed \in 1..RampMaxSpeed, tie \in Ties :
          generate_ramp(voltage1, voltage2, speed, tie)

RampSpec == RampInit /\ [][RampNext]_vars

\* Rationals <<n, d>> with d > 0.
RatLeq(a, b) == a[1] * b[2] <= b[1] * a[2]
RatEq(a, b) == a[1] * b[2] = b[1] * a[2]
Abs(x) == IF x < 0 THEN 0 - x ELSE x

RampCalled == op.name = "_generate_ramp"

\* ---------------------------------------------------- claims C11 to C20
\* C11: a start_scanning call with v_min greater than v_max is rejected
\* before any hardware interaction: it takes no lock, reads no position, sets
\* up neither clock nor scanner, and leaves the scan range, the repeat
\* counter, the direction and the result matrix unchanged.
C11_InvalidRangeRejected ==
    [][(\E a \in Volts, b \in Volts :
            /\ a > b
            /\ start_scanning(<<a>>, <<b>>))
        => /\ UNCHANGED <<scan_range, _scan_counter, upwards_scan,
                          scan_matrix, current_position, state, devState,
                          queue>>
           /\ pcStart' = "idle"]_vars

\* C12: stop_scanning changes nothing but the stop flag: it calls no device,
\* emits nothing, leaves the counter, the direction, the range, the matrix
\* and both locks as they are, sets the flag only when the module is locked
\* and is a no-op when the module is Idle.
C12_StopOnlySetsFlag ==
    [][op'.name = "stop_scanning"
        => /\ UNCHANGED <<state, devState, _scan_counter, upwards_scan,
                          scan_range, scan_matrix, current_position,
                          scanner_position, _current_v, queue, config>>
           /\ op'.io = <<>>
           /\ op'.emitted = <<>>
           /\ stopRequested' = (stopRequested \/ state = "locked")]_vars

\* A stop request taken while a session holds the module lock.
C12_Witness ==
    /\ op.name = "stop_scanning"
    /\ state = "locked"
    /\ stopRequested
    /\ trail = "stopped"

\* The last handler was a finalization step of _do_next_line.
FinalizationStep == op.name = "_do_next_line" /\ op.branch = "finish"

NextLineQueued == \E i \in DOMAIN queue : queue[i] = "next_line"

\* C16: a session that has entered finalization and has no further step
\* queued is Idle with both locks released and the stop flag cleared, also
\* when the parking sweep's device call or closing the device has failed.
C16_FinalizationEndsIdle ==
    (FinalizationStep /\ ~NextLineQueued) => (Idle /\ ~stopRequested)

\* C17: the step that runs the first measuring sweep (repeat counter 0) has
\* the device play a move ramp from the current voltage to the range minimum
\* before the sweep.
C17_MoveBeforeFirstSweep ==
    [][(op'.name = "_do_next_line" /\ op'.branch = "measure"
           /\ _scan_counter = 0 /\ op' # op)
        => \E i \in DOMAIN op'.io :
              /\ op'.io[i].call = "scan_line"
              /\ op'.io[i].kind = "goto"]_vars

\* C18: a finalization step that meets no device failure plays exactly one
\* parking sweep, then closes the scanner and its clock, releases the device
\* lock, clears the stop flag and releases the module lock, and schedules no
\* further step.
C18_FinalizationSequence ==
    (FinalizationStep /\ op.exc \notin {"HardwareError", "CloseError"})
        => /\ Len(op.io) = 3
           /\ op.io[1].call = "scan_line" /\ op.io[1].kind = "park"
           /\ op.io[2].call = "close_scanner"
           /\ op.io[3].call = "close_scanner_clock"
           /\ op.emitted = <<>>
           /\ Idle
           /\ ~stopRequested

\* C19: whenever the module is Idle the stop flag is false.
C19_IdleHasNoStopRequest == state = "idle" => ~stopRequested

\* C13: every _generate_ramp call returns a ramp of at least one sample
\* whose last sample differs from voltage2 by at most one linear step
\* speed / clock.
C13_RampReachesTarget ==
    RampCalled
        => /\ op.exc = ""
           /\ Len(op.ramp) >= 1
           /\ LET last == op.ramp[Len(op.ramp)]
              IN  Abs(last[1] - op.voltage2 * last[2]) * _clock_frequency
                      <= op.speed * last[2]

\* C14: with no smoothing steps the ramp from a to b over a whole number of
\* linear steps starts at a, ends at b, has (|b - a| / step) + 1 samples and
\* consecutive samples differ by exactly one step speed / clock.
C14_LinearRampSpacing ==
    (RampCalled /\ _smoothing_steps = 0
        /\ (Abs(op.voltage2 - op.voltage1) * _clock_frequency) % op.speed = 0)
        => /\ op.exc = ""
           /\ Len(op.ramp) =
                 (Abs(op.voltage2 - op.voltage1) * _clock_frequency)
                     \div op.speed + 1
           /\ RatEq(op.ramp[1], <<op.voltage1, 1>>)
           /\ RatEq(op.ramp[Len(op.ramp)], <<op.voltage2, 1>>)
           /\ \A i \in 1..(Len(op.ramp) - 1) :
                 Abs(op.ramp[i + 1][1] * op.ramp[i][2]
                         - op.ramp[i][1] * op.ramp[i + 1][2])
                     * _clock_frequency
                   = op.speed * op.ramp[i][2] * op.ramp[i + 1][2]

\* C15: the ramp from a to b, reversed, is sample for sample the ramp from
\* b to a; a call that raises in one direction raises in the other.
C15_RampSymmetry ==
    RampCalled
        => LET back == _generate_ramp(op.voltage2, op.voltage1, op.speed,
                                      op.tie)
           IN  /\ back.exc = op.exc
               /\ Len(back.ramp) = Len(op.ramp)
               /\ \A i \in 1..Len(op.ramp) :
                     RatEq(Reverse(op.ramp)[i], back.ramp[i])

\* A smoothed upward ramp with an acceleration, a linear and a deceleration
\* part.
C15_Witness ==
    /\ RampCalled
    /\ op.exc = ""
    /\ op.voltage1 < op.voltage2
    /\ _smoothing_steps >= 1
    /\ Len(op.ramp) > 2 * _smoothing_steps

\* C20: every sample of a returned ramp lies between min(voltage1, voltage2)
\* and max(voltage1, voltage2).
C20_SamplesWithinEndpoints ==
    RampCalled
        => \A i \in 1..Len(op.ramp) :
              /\ RatLeq(<<IF op.voltage1 <= op.voltage2
                          THEN op.voltage1 ELSE op.voltage2, 1>>, op.ramp[i])
              /\ RatLeq(op.ramp[i], <<IF op.voltage1 <= op.voltage2
                                      THEN op.voltage2 ELSE op.voltage1, 1>>)

\* A returned smoothed ramp over a distance shorter than twice the
\* acceleration span: the acceleration and deceleration parts overlap.
C20_Witness ==
    /\ RampCalled
    /\ op.exc = ""
    /\ _smoothing_steps >= 2
    /\ Len(op.ramp) = 2 * _smoothing_steps
    /\ Abs(op.voltage2 - op.voltage1) * _clock_frequency
           * (_smoothing_steps + 1)
         < 2 * SumRange(0, _smoothing_steps + 1, op.speed)

====
